---- MODULE Spec2Model ----
(***************************************************************************)
(* Model of the notebook PM_01_Frequency-Domain_Analysis_of_Large_Datasets *)
(* (Martin and Abernathey 2021).                                           *)
(*                                                                         *)
(* The notebook's own logic is clear_targets(), the re-masking of the      *)
(* loaded power spectrum (mask = ... > 0.2, .where(mask)) and the          *)
(* frequency-band averages (.sel(freq_time=band_slice).mean('freq_time')). *)
(* They are modelled here as the Python and xarray expressions compute     *)
(* them.  The rechunking itself, the Dask scheduler and the Fourier        *)
(* transform are calls into libraries whose code is not part of the        *)
(* repository; they are not modelled.                                      *)
(*                                                                         *)
(* Floating-point values are modelled by exact numbers: a frequency        *)
(* coordinate is an integer on a fixed scale (only order and equality of   *)
(* coordinates and slice bounds matter to .sel), and a mean is kept as the *)
(* pair <<sum, count>>.  Where the rounding of a coordinate decides a      *)
(* result (SpecTable), the rounding is left open.                          *)
(***************************************************************************)
EXTENDS Integers, Sequences, FiniteSets, Bags, TLC

\* Bounds of the model.
NCells == 2      \* coarsened spatial cells in the loaded region
MaxBins == 3     \* frequency bins of the spectrum: 1..MaxBins
MaxStep == 2     \* spacing of the frequency bins: 1..MaxStep
MaxBound == 5    \* slice bounds range over 0..MaxBound
MaxPower == 1    \* spectral values range over 0..MaxPower
MaxChunkKeys == 2    \* chunk files a path may hold from an earlier run

\* Constants of the notebook.
CoarsenFactor == 5   \* coarsen(nlon=5, nlat=5)
ThresholdNum == 2    \* the threshold 0.2, as ThresholdNum / ThresholdDen
ThresholdDen == 10

VARIABLES
    pc,                     \* the notebook cell that runs next
    ds_orig_SST0,           \* ds_orig.SST[0]: the first snapshot on the fine grid
    mask,                   \* mask, per coarsened cell (<<>> before it is computed)
    T_power_spectrum_NAtl,  \* spectrum, per frequency bin and coarsened cell
    freq_time,              \* the freq_time coordinate of the spectrum
    band_slice,             \* the loop variable band_slice
    band_sel,               \* freq_time coordinate of .sel(freq_time=band_slice)
    band_mean,              \* .sel(...).mean('freq_time'), per coarsened cell
    store,                  \* the files under tmp_path and target_path
    path_i,                 \* position of the loop "for path in tmp_path,target_path"
    exc,                    \* the exception in flight, "none" when there is none
    tolerated,              \* the paths whose FileNotFoundError was passed over
    band_i,                 \* position of the loop over bands.items()
    band_bins               \* the bins averaged by each band so far

maskVars == <<ds_orig_SST0, mask>>
bandVars == <<T_power_spectrum_NAtl, freq_time, band_slice, band_sel, band_mean>>
clearVars == <<store, path_i, exc, tolerated>>

tableVars == <<band_i, band_bins>>

vars == <<pc, maskVars, bandVars, clearVars, tableVars>>

----------------------------------------------------------------------------
\* Values: a number v is <<v>>, the missing value (NaN) and None are <<>>.

NaN == <<>>
None == <<>>
Num(v) == <<v>>
Power == {Num(v) : v \in 0..MaxPower}

Cells == 1..NCells

\* The freq_time coordinate xrft.power_spectrum gives a real transform of
\* the time axis: n equally spaced bins starting at 0.
FreqCoord(n, step) == [k \in 1..n |-> (k - 1) * step]

\* The stages that neither touch the stores nor loop over the band table.
NoStore ==
    /\ store = <<>>
    /\ path_i = 0
    /\ exc = "none"
    /\ tolerated = {}
    /\ band_i = 0
    /\ band_bins = <<>>

\* The sum of the natural numbers f[x] over x in S, as the size of the bag
\* that holds each x f[x] times.
SumOver(S, f) ==
    LET pos == {x \in S : f[x] > 0}
    IN  IF pos = {} THEN 0 ELSE BagCardinality([x \in pos |-> f[x]])

----------------------------------------------------------------------------
\* Re-masking (notebook lines 503-504).

\* The fine grid under the region: one row of coarsened cells.
FineGrid == (1..CoarsenFactor) \X (1..(CoarsenFactor * NCells))

\* coarsen(nlon=5, nlat=5): the fine-grid points of coarsened cell c.
CoarsenWindow(c) ==
    {p \in FineGrid : (p[2] - 1) \div CoarsenFactor = c - 1}

\* .notnull().astype(int)
NotNullInt(sst) == [p \in DOMAIN sst |-> IF sst[p] # NaN THEN 1 ELSE 0]

\* .coarsen(nlon=5, nlat=5).mean() > 0.2 for a window of n points holding
\* cnt non-missing ones: cnt / n > ThresholdNum / ThresholdDen.
ExceedsThreshold_AtLeast(cnt, n) == cnt * ThresholdDen >= ThresholdNum * n
ExceedsThreshold(cnt, n) == cnt * ThresholdDen > ThresholdNum * n

\* mask = (ds_orig.SST[0].notnull().astype(int).coarsen(...).mean() > 0.2)
MaskOf(sst) ==
    [c \in Cells |->
        ExceedsThreshold(SumOver(CoarsenWindow(c), NotNullInt(sst)),
                         Cardinality(CoarsenWindow(c)))]

\* T_power_spectrum_NAtl.where(mask): mask broadcasts along freq_time.
Where(T, m) ==
    [k \in DOMAIN T |-> [c \in Cells |-> IF m[c] THEN T[k][c] ELSE NaN]]

ComputeMask ==
    /\ pc = "mask"
    /\ mask' = MaskOf(ds_orig_SST0)
    /\ pc' = "where"
    /\ UNCHANGED <<ds_orig_SST0, T_power_spectrum_NAtl, freq_time,
                   band_slice, band_sel, band_mean>>
    /\ UNCHANGED <<clearVars, tableVars>>

ApplyWhere ==
    /\ pc = "where"
    /\ T_power_spectrum_NAtl' = Where(T_power_spectrum_NAtl, mask)
    /\ pc' = "masked"
    /\ UNCHANGED <<ds_orig_SST0, mask, freq_time, band_slice, band_sel, band_mean>>
    /\ UNCHANGED <<clearVars, tableVars>>

\* Inputs: the snapshot has cnt[c] non-missing points in cell c, filled from
\* the first point of the window in odd cells and from the last in even ones.
RankInWindow(p) ==
    (p[1] - 1) * CoarsenFactor + ((p[2] - 1) % CoarsenFactor) + 1
CellOf(p) == ((p[2] - 1) \div CoarsenFactor) + 1
WindowSize == CoarsenFactor * CoarsenFactor
Snapshot(cnt) ==
    [p \in FineGrid |->
        IF (IF CellOf(p) % 2 = 0 THEN WindowSize + 1 - RankInWindow(p)
                                 ELSE RankInWindow(p))
               <= cnt[CellOf(p)]
        THEN Num(0) ELSE NaN]

InitMask ==
    /\ pc = "mask"
    /\ \E cnt \in [Cells -> 0..WindowSize] : ds_orig_SST0 = Snapshot(cnt)
    /\ mask = <<>>
    /\ freq_time = FreqCoord(1, 1)
    /\ \E v \in 0..MaxPower :
           T_power_spectrum_NAtl =
               [k \in 1..1 |-> [c \in Cells |-> Num((v + c) % (MaxPower + 1))]]
    /\ band_slice = <<>>
    /\ band_sel = <<>>
    /\ band_mean = <<>>
    /\ NoStore

NextMask == ComputeMask \/ ApplyWhere

SpecMask == InitMask /\ [][NextMask]_vars

----------------------------------------------------------------------------
\* Band averages (notebook lines 568-586).

\* A band: slice(start, stop) with start below stop, or with stop None
\* (lines 568-574).
Slice(start, stop) == <<start, stop>>
BandSlices ==
    {Slice(start, None) : start \in 0..MaxBound}
    \cup UNION {{Slice(start, Num(stop)) : stop \in (start + 1)..MaxBound} :
                   start \in 0..MaxBound}

\* Label-based slicing of a sorted coordinate: .sel(freq_time=slice(start,
\* stop)) keeps the labels from start to stop, both bounds included.
InSlice(f, s) == f >= s[1] /\ (s[2] = None \/ f <= s[2][1])
SelIdx(ft, s) == {i \in DOMAIN ft : InSlice(ft[i], s)}
SelCoord(ft, s) == SelectSeq(ft, LAMBDA f : InSlice(f, s))

\* .mean('freq_time') over the bins idx, per cell: missing values are
\* skipped, and a cell with no value left is missing.
MeanFreq(T, idx) ==
    [c \in Cells |->
        LET ok == {i \in idx : T[i][c] # NaN}
        IN  IF ok = {} THEN NaN
            ELSE <<SumOver(ok, [i \in ok |-> T[i][c][1]]), Cardinality(ok)>>]

\* One iteration of the loop over bands.items() (lines 583-586).
BandAverage ==
    /\ pc = "bands"
    /\ \E s \in BandSlices :
          /\ band_slice' = s
          /\ band_sel' = SelCoord(freq_time, s)
          /\ band_mean' = MeanFreq(T_power_spectrum_NAtl, SelIdx(freq_time, s))
    /\ UNCHANGED <<pc, ds_orig_SST0, mask, T_power_spectrum_NAtl, freq_time>>
    /\ UNCHANGED <<clearVars, tableVars>>

InitBand ==
    /\ pc = "bands"
    /\ ds_orig_SST0 = <<>>
    /\ mask \in [Cells -> BOOLEAN]
    /\ \E n \in 1..MaxBins, step \in 1..MaxStep :
          /\ freq_time = FreqCoord(n, step)
          /\ \E T \in [1..n -> [Cells -> Power]] :
                 T_power_spectrum_NAtl = Where(T, mask)
    /\ band_slice = <<>>
    /\ band_sel = <<>>
    /\ band_mean = <<>>
    /\ NoStore

NextBand == BandAverage

SpecBand == InitBand /\ [][NextBand]_vars

----------------------------------------------------------------------------
\* Clearing the paths before rechunking (notebook lines 228-267).

\* for path in tmp_path,target_path: 1 is tmp_path, 2 is target_path.
tmp_path == 1
target_path == 2
Paths == <<tmp_path, target_path>>

\* The files of an array store: its metadata file and its chunk files.
ZArray == <<".zarray">>
ChunkKeys == {<<"chunk", n>> : n \in 1..MaxChunkKeys}
Keys == {ZArray} \cup ChunkKeys
Stores == [{tmp_path, target_path} -> SUBSET Keys]

\* except FileNotFoundError: the exceptions the handler catches.
Handles(e) == e = "FileNotFoundError"

\* The loop position after the handler's pass: the try is inside the loop,
\* so the loop goes on with the next path.
AfterPass_LeaveLoop(i) == Len(Paths) + 1
AfterPass(i) == i + 1

\* clear_targets() is called: the loop starts at its first path.
CallClearTargets ==
    /\ pc = "clear_targets"
    /\ pc' = "for"
    /\ path_i' = 1
    /\ UNCHANGED <<store, exc, tolerated, maskVars, bandVars, tableVars>>

\* try: gcs.rm(path + '/.zarray'): the file is removed, or, when there is
\* none, FileNotFoundError is raised.
TryRm ==
    /\ pc = "for"
    /\ path_i <= Len(Paths)
    /\ IF ZArray \in store[Paths[path_i]]
       THEN /\ store' = [store EXCEPT ![Paths[path_i]] = @ \ {ZArray}]
            /\ path_i' = path_i + 1
            /\ UNCHANGED <<pc, exc>>
       ELSE /\ exc' = "FileNotFoundError"
            /\ pc' = "except"
            /\ UNCHANGED <<store, path_i>>
    /\ UNCHANGED <<tolerated, maskVars, bandVars, tableVars>>

\* except FileNotFoundError: pass
Except ==
    /\ pc = "except"
    /\ IF Handles(exc)
       THEN /\ exc' = "none"
            /\ tolerated' = tolerated \cup {Paths[path_i]}
            /\ path_i' = AfterPass(path_i)
            /\ pc' = "for"
       ELSE /\ pc' = "raised"
            /\ UNCHANGED <<exc, tolerated, path_i>>
    /\ UNCHANGED <<store, maskVars, bandVars, tableVars>>

\* The loop is over: clear_targets() returns.
ReturnClearTargets ==
    /\ pc = "for"
    /\ path_i > Len(Paths)
    /\ pc' = "get_mapper"
    /\ UNCHANGED <<store, path_i, exc, tolerated, maskVars, bandVars, tableVars>>

\* store_tmp = gcs.get_mapper(tmp_path); store_target = gcs.get_mapper(...)
GetMappers ==
    /\ pc = "get_mapper"
    /\ pc' = "rechunk"
    /\ UNCHANGED <<clearVars, maskVars, bandVars, tableVars>>

\* r = rechunk(array, target_chunks, max_mem, store_target, temp_store=...):
\* what the library writes to the two paths is left open.
Rechunk ==
    /\ pc = "rechunk"
    /\ pc' = "planned"
    /\ store' \in Stores
    /\ UNCHANGED <<path_i, exc, tolerated, maskVars, bandVars, tableVars>>

\* Inputs: each path holds any files of an earlier run, or none.
InitClear ==
    /\ pc = "clear_targets"
    /\ store \in Stores
    /\ path_i = 0
    /\ exc = "none"
    /\ tolerated = {}
    /\ band_i = 0
    /\ band_bins = <<>>
    /\ ds_orig_SST0 = <<>>
    /\ mask = <<>>
    /\ T_power_spectrum_NAtl = <<>>
    /\ freq_time = <<>>
    /\ band_slice = <<>>
    /\ band_sel = <<>>
    /\ band_mean = <<>>

NextClear ==
    \/ CallClearTargets
    \/ TryRm
    \/ Except
    \/ ReturnClearTargets
    \/ GetMappers
    \/ Rechunk

SpecClear == InitClear /\ [][NextClear]_vars

----------------------------------------------------------------------------
\* The notebook's band table over the 10-year window (lines 355-358, 568-586).

yr1 == 0
yr2 == 10
DaysPerYear == 365

\* T_rechunked[365*yr1:365*yr2,:,:]: the length of the time axis.
WindowDays == DaysPerYear * yr2 - DaysPerYear * yr1

\* Frequencies are integers in units of 1/UnitsPerDay per day: 9723600 is
\* the least common multiple of 3650, 400, 370, 360, 100 and 10, so every
\* bound 1/d and every bin k/3650 is a multiple of 4 units, and a rounding
\* error of one unit never reorders two different frequencies.
UnitsPerDay == 4 * 9723600
Bound(d) == UnitsPerDay \div d

\* bands, in the order of bands.items().
bands ==
    << <<"> 1 year",           Slice(Bound(3650), Num(Bound(400)))>>,
       <<"~ 1 year",           Slice(Bound(370), Num(Bound(360)))>>,
       <<"100 days - 1 year",  Slice(Bound(360), Num(Bound(100)))>>,
       <<"10 days - 100 days", Slice(Bound(100), Num(Bound(10)))>>,
       <<"< 10 days",          Slice(Bound(10), None)>> >>

\* The rounding error of a bin's floating-point coordinate against k/N, in
\* units: the coordinate is computed by the transform library, which may
\* land below, on or above the exact value.
Roundings == {0 - 1, 0, 1}

\* The freq_time coordinate of the real transform of WindowDays daily
\* samples: bins k/WindowDays for k = 0..WindowDays/2, bin k at index k + 1.
WindowCoord(r) ==
    [i \in 1..(WindowDays \div 2 + 1) |->
        IF i = 1 THEN 0 ELSE (i - 1) * (UnitsPerDay \div WindowDays) + r]

\* One iteration of the loop over bands.items() (lines 583-586).
TableBandAverage ==
    /\ pc = "band_table"
    /\ band_i <= Len(bands)
    /\ LET s == bands[band_i][2]
       IN  /\ band_slice' = s
           /\ band_sel' = SelCoord(freq_time, s)
           /\ band_mean' = MeanFreq(T_power_spectrum_NAtl, SelIdx(freq_time, s))
           /\ band_bins' = Append(band_bins, SelIdx(freq_time, s))
    /\ band_i' = band_i + 1
    /\ UNCHANGED <<pc, maskVars, T_power_spectrum_NAtl, freq_time, clearVars>>

InitTable ==
    /\ pc = "band_table"
    /\ ds_orig_SST0 = <<>>
    /\ mask \in [Cells -> BOOLEAN]
    /\ \E r \in Roundings : freq_time = WindowCoord(r)
    /\ \E v \in 0..MaxPower :
          T_power_spectrum_NAtl =
              Where([i \in DOMAIN freq_time |->
                        [c \in Cells |-> Num((v + i + c) % (MaxPower + 1))]], mask)
    /\ band_slice = <<>>
    /\ band_sel = <<>>
    /\ band_mean = <<>>
    /\ store = <<>>
    /\ path_i = 0
    /\ exc = "none"
    /\ tolerated = {}
    /\ band_i = 1
    /\ band_bins = <<>>

NextTable == TableBandAverage

SpecTable == InitTable /\ [][NextTable]_vars

----------------------------------------------------------------------------
\* Claims.

\* The bins of the half-open interval [lo, hi) of a band.
HalfOpenIdx ==
    {i \in DOMAIN freq_time :
        /\ freq_time[i] >= band_slice[1]
        /\ (band_slice[2] = None \/ freq_time[i] < band_slice[2][1])}

\* C9 (as claimed): a band average selects exactly the bins f with
\* lo <= f < hi (every bin f >= lo when the upper bound is absent) and is the
\* unweighted mean of the spectrum over exactly those bins.
C9_HalfOpenBand ==
    band_slice # <<>> =>
        /\ {band_sel[j] : j \in DOMAIN band_sel} = {freq_time[i] : i \in HalfOpenIdx}
        /\ band_mean = MeanFreq(T_power_spectrum_NAtl, HalfOpenIdx)

\* C9 (as the code behaves): a band average selects the bins f with
\* lo <= f <= hi, the upper bound included, and is their unweighted mean.
C9_ClosedBand ==
    band_slice # <<>> =>
        LET closed == {i \in DOMAIN freq_time :
                          /\ freq_time[i] >= band_slice[1]
                          /\ (band_slice[2] = None \/ freq_time[i] <= band_slice[2][1])}
        IN  /\ {band_sel[j] : j \in DOMAIN band_sel} = {freq_time[i] : i \in closed}
            /\ \A c \in Cells :
                  LET ok == {i \in closed : T_power_spectrum_NAtl[i][c] # NaN}
                  IN  IF ok = {} THEN band_mean[c] = NaN
                      ELSE /\ band_mean[c] # NaN
                           /\ band_mean[c][2] = Cardinality(ok)
                           /\ band_mean[c][1] =
                                  SumOver(ok, [i \in ok |-> T_power_spectrum_NAtl[i][c][1]])

\* Non-missing points of the first snapshot in coarsened cell c.
NonMissing(c) ==
    Cardinality({p \in CoarsenWindow(c) : ds_orig_SST0[p] # NaN})

\* C10: a coarsened 5x5 cell is valid iff at least 6 of its 25 points are
\* non-missing (its non-missing fraction strictly exceeds 0.2), and applying
\* the mask sets every invalid cell to the no-data marker whatever its
\* spectral value and leaves every valid cell's spectral value unchanged.
C10_Masking ==
    /\ [](pc \in {"where", "masked"} =>
            \A c \in Cells : mask[c] <=> NonMissing(c) >= 6)
    /\ [][(pc = "where" /\ pc' = "masked") =>
            \A k \in DOMAIN T_power_spectrum_NAtl : \A c \in Cells :
                T_power_spectrum_NAtl'[k][c] =
                    IF NonMissing(c) >= 6 THEN T_power_spectrum_NAtl[k][c] ELSE NaN]_vars

\* C10 witness: after the mask is applied, a cell with exactly 5 of 25
\* non-missing points carries the no-data marker and a cell with exactly 6
\* keeps a spectral value.
C10_Witness ==
    /\ pc = "masked"
    /\ \E c \in Cells : NonMissing(c) = 5 /\ T_power_spectrum_NAtl[1][c] = NaN
    /\ \E c \in Cells : NonMissing(c) = 6 /\ T_power_spectrum_NAtl[1][c] # NaN

C12_OnlySharedBound ==
    \A a, b \in DOMAIN band_bins :
        a # b => \A i \in band_bins[a] \cap band_bins[b] :
                    i = DaysPerYear + 1 /\ freq_time[i] = Bound(10)

====
